---- MODULE Spec2Model ----
(***************************************************************************)
(* Model of currencycloud/http.py: the Http mixin's get/post, the          *)
(* environment URL table, on_behalf_of injection, header construction,     *)
(* the 401 re-authentication loop and the status-code to error mapping.    *)
(*                                                                         *)
(* A call is split at the points where it touches the outside world: the   *)
(* transport request (line 108), config.reauthenticate() (line 114), the   *)
(* header rebuild that re-reads config.auth_token (line 115) and the final *)
(* error mapping (lines 34/53).  Tokens are generation numbers: the token  *)
(* installed by the n-th reauthenticate is n, the token the Configuration  *)
(* was created with is 0.                                                  *)
(***************************************************************************)
EXTENDS Integers, Sequences, FiniteSets, TLC

VARIABLES config, started, returned_reauth, pc, call

vars == <<config, started, returned_reauth, pc, call>>

(* ------------------------------- bounds -------------------------------- *)

\* calls issued by the single caller of Spec
MaxCalls == 2
\* calls issued in total by the concurrent callers of ConcSpec
MaxConcCalls == 3
\* concurrent callers sharing one Configuration in ConcSpec
NumThreads == 2
\* tokens the server rejects in ConcSpec, so re-authentications it causes
MaxConcRejected == 2

Threads == 1..NumThreads

(* ------------------------------ values --------------------------------- *)

\* Python None where a parameter mapping is expected
None == [none |-> TRUE]
\* Python None where a string is expected (config.on_behalf_of)
NoneStr == "<None>"
\* the empty dict {}
EmptyDict == [k \in {} |-> NoneStr]

Dict(k, v) == [x \in {k} |-> v]

\* d[k] = v  (in-place item assignment on a dict)
SetItem(d, k, v) == [x \in (DOMAIN d) \cup {k} |-> IF x = k THEN v ELSE d[x]]

ENV_PRODUCTION == "prod"
ENV_DEMONSTRATION == "demo"
ENV_UAT == "uat"

\* environment names a Configuration may hold; the last one is not in the table
EnvironmentNames == {ENV_PRODUCTION, ENV_DEMONSTRATION, ENV_UAT, "staging"}

Endpoints == {"/balances/find", "/rates/detailed"}

\* parameter mappings a caller may pass
CallerData ==
    { None,
      EmptyDict,
      Dict("currency", "GBP"),
      Dict("on_behalf_of", "caller-contact"),
      SetItem(Dict("currency", "GBP"), "on_behalf_of", "caller-contact") }

ConfiguredOnBehalfOf == {NoneStr, "config-contact"}

\* status codes the transport may answer with
StatusCodes == {199, 200, 201, 204, 299, 300, 302, 400, 401, 403, 404, 418, 429, 500, 503}

\* the reduced inputs of the concurrent specification
ConcStatusCodes == {200, 401}

(* ---------------------- Http class-level tables ------------------------ *)

ENVIRONMENT_URLS ==
    [e \in {ENV_PRODUCTION, ENV_DEMONSTRATION, ENV_UAT} |->
        CASE e = ENV_PRODUCTION -> "https://api.thecurrencycloud.com"
          [] e = ENV_DEMONSTRATION -> "https://devapi.thecurrencycloud.com"
          [] e = ENV_UAT -> "https://api-uat1.ccycloud.com"]

HTTP_CODE_TO_ERROR ==
    [c \in {400, 401, 403, 404, 429, 500} |->
        CASE c = 400 -> "BadRequestError"
          [] c = 401 -> "AuthenticationError"
          [] c = 403 -> "ForbiddenError"
          [] c = 404 -> "NotFoundError"
          [] c = 429 -> "TooManyRequestsError"
          [] c = 500 -> "InternalApplicationError"]

(* --------------------------- pure helpers ------------------------------ *)

\* Http.__environment_url: the table lookup, or the RuntimeError
valid_environment(cfg) == cfg.environment \in DOMAIN ENVIRONMENT_URLS

environment_url(cfg) == ENVIRONMENT_URLS[cfg.environment]

\* faulty variant: the endpoint is not appended to the host
build_url_without_endpoint(cfg, endpoint) == environment_url(cfg)

\* Http.__build_url
build_url(cfg, endpoint) == environment_url(cfg) \o endpoint

\* faulty variant: the configured value replaces the one the caller supplied
handle_on_behalf_of_overwriting(cfg, data) ==
    IF cfg.on_behalf_of # NoneStr
    THEN SetItem(IF data = None THEN EmptyDict ELSE data, "on_behalf_of", cfg.on_behalf_of)
    ELSE data

\* Http.__handle_on_behalf_of
handle_on_behalf_of(cfg, data) ==
    IF cfg.on_behalf_of # NoneStr
    THEN LET d == IF data = None THEN EmptyDict ELSE data
         IN  IF "on_behalf_of" \notin DOMAIN d
             THEN SetItem(d, "on_behalf_of", cfg.on_behalf_of)
             ELSE d
    ELSE data

\* faulty variant: the token is attached whatever the authenticated flag
build_headers_always_token(cfg, authenticated) == Dict("X-Auth-Token", cfg.auth_token)

\* faulty variant: the token the Configuration was created with is attached
build_headers_initial_token(cfg, authenticated) ==
    IF authenticated
    THEN Dict("X-Auth-Token", 0)
    ELSE EmptyDict

\* Http.__build_headers
build_headers(cfg, authenticated) ==
    IF authenticated
    THEN Dict("X-Auth-Token", cfg.auth_token)
    ELSE EmptyDict

\* faulty variant: one attempt too many
initial_retry_count_four(retry) == IF retry THEN 4 ELSE 1

\* retry_count = 3 if retry else 1
initial_retry_count(retry) == IF retry THEN 3 ELSE 1

\* faulty variant: everything below 300 is success
is_success_below_300(status_code) == status_code < 300

\* int(response.status_code / 100) == 2
is_success(status_code) == (status_code \div 100) = 2

\* Http.HTTP_CODE_TO_ERROR.get(response.status_code, errors.ApiError)
error_class(status_code) ==
    IF status_code \in DOMAIN HTTP_CODE_TO_ERROR
    THEN HTTP_CODE_TO_ERROR[status_code]
    ELSE "ApiError"

\* Http.__handle_errors: the parsed body, or the raised error
handle_errors(verb, url, params, response) ==
    IF is_success(response.status_code)
    THEN [kind |-> "return", value |-> "response.json()", verb |-> verb,
          url |-> url, params |-> params, response |-> response]
    ELSE [kind |-> "raise", value |-> error_class(response.status_code), verb |-> verb,
          url |-> url, params |-> params, response |-> response]

\* Config.reauthenticate: replaces auth_token by a freshly issued token
reauthenticate(cfg) == [cfg EXCEPT !.auth_token = @ + 1]

(* --------------------------- call records ------------------------------ *)

NoResponse == [status_code |-> 0, attempt |-> 0]
NoOutcome == [kind |-> "none", value |-> "", verb |-> "", url |-> "",
              params |-> None, response |-> NoResponse]

\* what the transport was handed on one attempt, with the Configuration's token at
\* that instant, the number of reauthenticate invocations since the previous attempt,
\* the token the latest of them installed and the headers of the previous attempt
NoRequest ==
    [attempt |-> 0, verb |-> "", url |-> "", headers |-> EmptyDict, params |-> None,
     token |-> 0, reauths_before |-> 0, reauth_token |-> 0, prev_headers |-> EmptyDict]

\* the locals of a call (verb ... response), then what an observer of the call records
IdleCall ==
    [verb |-> "", endpoint |-> "", authenticated |-> FALSE, retry |-> FALSE,
     url |-> "", data |-> None, headers |-> EmptyDict, retry_count |-> 0,
     response |-> NoResponse,
     caller_data |-> None, outcome |-> NoOutcome,
     began_token |-> 0, began_after |-> 0,
     statuses |-> <<>>, n_reauth |-> 0, reauth_pending |-> 0, reauth_token |-> 0,
     first_request |-> NoRequest, last_request |-> NoRequest, sent_tokens |-> {}]

SentRequest(c, cfg) ==
    [attempt |-> Len(c.statuses) + 1, verb |-> c.verb, url |-> c.url,
     headers |-> c.headers, params |-> c.data, token |-> cfg.auth_token,
     reauths_before |-> c.reauth_pending, reauth_token |-> c.reauth_token,
     prev_headers |-> c.last_request.headers]

HeaderTokens(headers) == {headers[k] : k \in DOMAIN headers}

Max(a, b) == IF a >= b THEN a ELSE b

RECURSIVE Count401(_)
Count401(statuses) ==
    IF statuses = <<>> THEN 0
    ELSE (IF Head(statuses) = 401 THEN 1 ELSE 0) + Count401(Tail(statuses))

(* ------------------------------ state ---------------------------------- *)

Init ==
    /\ config \in [environment : EnvironmentNames,
                   on_behalf_of : ConfiguredOnBehalfOf,
                   auth_token : {0}]
    /\ started = 0
    /\ returned_reauth = 0
    /\ pc = [t \in Threads |-> "idle"]
    /\ call = [t \in Threads |-> IdleCall]

\* lines 20-22 / 39-41 and line 104: everything a call does before its first request
Enter(t, verb, endpoint, data, authenticated, retry) ==
    /\ pc[t] \in {"idle", "done"}
    /\ started' = started + 1
    /\ IF ~valid_environment(config)
       THEN /\ call' = [call EXCEPT ![t] =
                   [IdleCall EXCEPT !.verb = verb, !.endpoint = endpoint,
                        !.caller_data = data, !.authenticated = authenticated,
                        !.retry = retry,
                        !.began_token = config.auth_token,
                        !.began_after = returned_reauth,
                        !.outcome = [NoOutcome EXCEPT !.kind = "raise",
                                                      !.value = "RuntimeError",
                                                      !.verb = verb]]]
            /\ pc' = [pc EXCEPT ![t] = "done"]
       ELSE /\ call' = [call EXCEPT ![t] =
                   [IdleCall EXCEPT !.verb = verb, !.endpoint = endpoint,
                        !.caller_data = data, !.authenticated = authenticated,
                        !.retry = retry,
                        !.began_token = config.auth_token,
                        !.began_after = returned_reauth,
                        !.url = build_url(config, endpoint),
                        !.data = handle_on_behalf_of(config, data),
                        !.headers = build_headers(config, authenticated),
                        !.retry_count = initial_retry_count(retry)]]
            /\ pc' = [pc EXCEPT ![t] = "loop"]
    /\ UNCHANGED <<config, returned_reauth>>

\* Http.get
get(t, endpoint, query, authenticated, retry) ==
    Enter(t, "get", endpoint, query, authenticated, retry)

\* Http.post
post(t, endpoint, data, authenticated, retry) ==
    Enter(t, "post", endpoint, data, authenticated, retry)

\* faulty variant: a 503 is retried through re-authentication like a 401
after_response_retrying_503(status_code, retry) ==
    IF status_code \notin {401, 503} THEN "return"
    ELSE IF retry THEN "reauth"
    ELSE "loop"

\* faulty variant: a 401 re-authenticates whatever the retry flag
after_response_ignoring_retry(status_code, retry) ==
    IF status_code # 401 THEN "return" ELSE "reauth"

\* where control goes after a response (lines 110-113)
after_response(status_code, retry) ==
    IF status_code # 401 THEN "return"
    ELSE IF retry THEN "reauth"
    ELSE "loop"

\* lines 106-113: one pass of the loop up to the decision on the response
execute_request(t, status_code) ==
    /\ pc[t] = "loop"
    /\ call[t].retry_count # 0
    /\ LET c == call[t]
           sent == SentRequest(c, config)
           resp == [status_code |-> status_code, attempt |-> sent.attempt]
       IN  /\ call' = [call EXCEPT ![t] =
                   [c EXCEPT !.retry_count = @ - 1,
                             !.response = resp,
                             !.statuses = Append(@, status_code),
                             !.reauth_pending = 0,
                             !.first_request = IF sent.attempt = 1 THEN sent ELSE @,
                             !.last_request = sent,
                             !.sent_tokens = @ \cup HeaderTokens(sent.headers)]]
           /\ pc' = [pc EXCEPT ![t] = after_response(status_code, c.retry)]
    /\ UNCHANGED <<config, started, returned_reauth>>

\* line 106 with retry_count = 0, then line 117
loop_exit(t) ==
    /\ pc[t] = "loop"
    /\ call[t].retry_count = 0
    /\ pc' = [pc EXCEPT ![t] = "return"]
    /\ UNCHANGED <<config, started, returned_reauth, call>>

\* faulty variant: calls that carry no token skip the re-authentication
do_reauthenticate_authenticated_only(t) ==
    /\ pc[t] = "reauth"
    /\ IF call[t].authenticated
       THEN /\ config' = reauthenticate(config)
            /\ call' = [call EXCEPT ![t].n_reauth = @ + 1,
                                    ![t].reauth_pending = @ + 1,
                                    ![t].reauth_token = config'.auth_token]
       ELSE UNCHANGED <<config, call>>
    /\ pc' = [pc EXCEPT ![t] = "rebuild"]
    /\ UNCHANGED <<started, returned_reauth>>

\* line 114
do_reauthenticate(t) ==
    /\ pc[t] = "reauth"
    /\ config' = reauthenticate(config)
    /\ call' = [call EXCEPT ![t].n_reauth = @ + 1,
                            ![t].reauth_pending = @ + 1,
                            ![t].reauth_token = config'.auth_token]
    /\ pc' = [pc EXCEPT ![t] = "rebuild"]
    /\ UNCHANGED <<started, returned_reauth>>

\* faulty variant: the headers built before the loop are reused after re-authentication
rebuild_headers_stale(t) ==
    /\ pc[t] = "rebuild"
    /\ pc' = [pc EXCEPT ![t] = "loop"]
    /\ UNCHANGED <<config, started, returned_reauth, call>>

\* line 115
rebuild_headers(t) ==
    /\ pc[t] = "rebuild"
    /\ call' = [call EXCEPT ![t].headers = build_headers(config, call[t].authenticated)]
    /\ pc' = [pc EXCEPT ![t] = "loop"]
    /\ UNCHANGED <<config, started, returned_reauth>>

\* lines 34 / 53: the call returns or raises
map_response(t) ==
    /\ pc[t] = "return"
    /\ LET c == call[t]
       IN  /\ call' = [call EXCEPT ![t].outcome =
                          handle_errors(c.verb, c.url, c.data, c.response)]
           /\ returned_reauth' = Max(returned_reauth, c.reauth_token)
    /\ pc' = [pc EXCEPT ![t] = "done"]
    /\ UNCHANGED <<config, started>>

(* --------------------------- specifications ---------------------------- *)

\* one caller issuing calls one after another
Caller == CHOOSE t \in Threads : \A u \in Threads : t <= u

CallGet ==
    /\ started < MaxCalls
    /\ \E e \in Endpoints, d \in CallerData, a \in BOOLEAN, r \in BOOLEAN :
          get(Caller, e, d, a, r)

CallPost ==
    /\ started < MaxCalls
    /\ \E e \in Endpoints, d \in CallerData, a \in BOOLEAN, r \in BOOLEAN :
          post(Caller, e, d, a, r)

Request == \E s \in StatusCodes : execute_request(Caller, s)

LoopExit == loop_exit(Caller)

Reauthenticate == do_reauthenticate(Caller)

RebuildHeaders == rebuild_headers(Caller)

MapResponse == map_response(Caller)

Next ==
    \/ CallGet
    \/ CallPost
    \/ Request
    \/ LoopExit
    \/ Reauthenticate
    \/ RebuildHeaders
    \/ MapResponse

Spec == Init /\ [][Next]_vars

\* several callers sharing one Configuration, interleaved at the split points
ConcInit ==
    /\ Init
    /\ config.environment = ENV_PRODUCTION
    /\ config.on_behalf_of = NoneStr

ConcCallGet ==
    /\ started < MaxConcCalls
    /\ \E t \in Threads : get(t, "/balances/find", None, TRUE, TRUE)

ConcCallPost ==
    /\ started < MaxConcCalls
    /\ \E t \in Threads : post(t, "/balances/find", None, TRUE, FALSE)

\* re-authentications already performed or about to be (a caller at line 114)
Rejected == config.auth_token + Cardinality({u \in Threads : pc[u] = "reauth"})

ConcRequest ==
    \E t \in Threads, s \in ConcStatusCodes :
        /\ (s = 401 /\ call[t].retry) => Rejected < MaxConcRejected
        /\ execute_request(t, s)

ConcLoopExit == \E t \in Threads : loop_exit(t)

ConcReauthenticate == \E t \in Threads : do_reauthenticate(t)

ConcRebuildHeaders == \E t \in Threads : rebuild_headers(t)

ConcMapResponse == \E t \in Threads : map_response(t)

ConcNext ==
    \/ ConcCallGet
    \/ ConcCallPost
    \/ ConcRequest
    \/ ConcLoopExit
    \/ ConcReauthenticate
    \/ ConcRebuildHeaders
    \/ ConcMapResponse

ConcSpec == ConcInit /\ [][ConcNext]_vars

(* ------------------------------ claims --------------------------------- *)

\* the calls that have passed the environment lookup
Active(t) == pc[t] \notin {"idle"} /\ call[t].outcome.value # "RuntimeError"

Finished(t) == pc[t] = "done" /\ call[t].outcome.value # "RuntimeError"

AuthHeader(token) == [x \in {"X-Auth-Token"} |-> token]

\* C1: with retry=True the loop stops at the first response that is not 401: a call
\* never sends a request after a non-401 response and never gives up on a 401 before
\* its third attempt, so a first non-401 at position k (1..3) means exactly k requests;
\* reauthenticate has then run exactly k-1 times and the k-th response is the one the
\* error mapping receives ([401, 401, 200] ends in a successful result).
C1_StopsAtFirstNon401 ==
    \A t \in Threads :
        LET c == call[t]
            n == Len(c.statuses)
        IN  (Active(t) /\ c.retry) =>
              /\ n <= 3
              /\ \A i \in 1..(n - 1) : c.statuses[i] = 401
              /\ (pc[t] = "done") => (n >= 1 /\ (c.statuses[n] # 401 \/ n = 3))
              /\ (n >= 1 /\ c.statuses[n] # 401) =>
                    /\ pc[t] \in {"return", "done"}
                    /\ c.n_reauth = n - 1
                    /\ c.response = [status_code |-> c.statuses[n], attempt |-> n]
                    /\ (pc[t] = "done") =>
                          /\ c.outcome.response = c.response
                          /\ (c.statuses[n] = 200) => c.outcome.kind = "return"
                          /\ (c.statuses[n] = 500) =>
                                c.outcome.value = "InternalApplicationError"

C1_Witness ==
    \E t \in Threads :
        /\ Finished(t)
        /\ call[t].retry
        /\ call[t].statuses = <<401, 401, 200>>
        /\ call[t].n_reauth = 2
        /\ call[t].outcome.kind = "return"
        /\ call[t].outcome.response.attempt = 3

\* C2: with retry=False a first response of 401 is the only request of the call,
\* reauthenticate is never invoked (the Configuration's token is the one the call
\* began with) and the call raises AuthenticationError.
C2_NoRetryOn401 ==
    \A t \in Threads :
        LET c == call[t]
        IN  (Active(t) /\ ~c.retry) =>
              /\ Len(c.statuses) <= 1
              /\ c.n_reauth = 0
              /\ pc[t] \notin {"reauth", "rebuild"}
              /\ config.auth_token = c.began_token
              /\ (pc[t] = "done") => Len(c.statuses) = 1
              /\ (pc[t] = "done" /\ c.statuses = <<401>>) =>
                    /\ c.outcome.kind = "raise"
                    /\ c.outcome.value = "AuthenticationError"

C2_Witness ==
    \E t \in Threads :
        /\ Finished(t)
        /\ ~call[t].retry
        /\ call[t].statuses = <<401>>
        /\ call[t].outcome.value = "AuthenticationError"
        /\ call[t].began_token > 0

\* C3: with retry=True and nothing but 401 responses exactly three requests are made
\* and the call raises AuthenticationError carrying the third response; it never
\* returns a success value.
C3_ExhaustedRetries ==
    \A t \in Threads :
        LET c == call[t]
            n == Len(c.statuses)
        IN  (Active(t) /\ c.retry /\ Count401(c.statuses) = n) =>
              /\ n <= 3
              /\ (pc[t] \in {"return", "done"}) => n = 3
              /\ (pc[t] = "done") =>
                    /\ c.outcome.kind = "raise"
                    /\ c.outcome.value = "AuthenticationError"
                    /\ c.outcome.response = [status_code |-> 401, attempt |-> 3]

C3_Witness ==
    \E t \in Threads :
        /\ Finished(t)
        /\ call[t].retry
        /\ call[t].statuses = <<401, 401, 401>>
        /\ call[t].outcome.value = "AuthenticationError"

\* the outcome the specification gives for a status code
ExpectedOutcome(s) ==
    IF s >= 200 /\ s <= 299 THEN <<"return", "response.json()">>
    ELSE IF s = 400 THEN <<"raise", "BadRequestError">>
    ELSE IF s = 401 THEN <<"raise", "AuthenticationError">>
    ELSE IF s = 403 THEN <<"raise", "ForbiddenError">>
    ELSE IF s = 404 THEN <<"raise", "NotFoundError">>
    ELSE IF s = 429 THEN <<"raise", "TooManyRequestsError">>
    ELSE IF s = 500 THEN <<"raise", "InternalApplicationError">>
    ELSE <<"raise", "ApiError">>

\* C4: the outcome of a call depends only on the status code of the response the
\* retry loop leaves: 200-299 returns the parsed body, 400/401/403/404/429/500 raise
\* their own error class, every other code raises ApiError.
C4_OutcomeByStatus ==
    \A t \in Threads :
        LET c == call[t]
        IN  Finished(t) =>
              /\ c.response.status_code = c.statuses[Len(c.statuses)]
              /\ <<c.outcome.kind, c.outcome.value>> = ExpectedOutcome(c.response.status_code)
              /\ c.outcome.response = c.response

C4_Witness ==
    \E t \in Threads :
        /\ Finished(t)
        /\ call[t].response.status_code = 418
        /\ call[t].outcome.kind = "raise"
        /\ call[t].outcome.value = "ApiError"

\* the host the specification gives for an environment name
ExpectedHost(e) ==
    IF e = ENV_PRODUCTION THEN "https://api.thecurrencycloud.com"
    ELSE IF e = ENV_DEMONSTRATION THEN "https://devapi.thecurrencycloud.com"
    ELSE "https://api-uat1.ccycloud.com"

\* C5: under production, demonstration or UAT every attempt goes to that
\* environment's host followed by the endpoint; under any other environment name the
\* call raises the configuration error with no request sent and no reauthenticate
\* invoked, whatever the retry flag.
C5_EnvironmentUrl ==
    \A t \in Threads :
        LET c == call[t]
        IN  (pc[t] # "idle") =>
              IF config.environment \in {ENV_PRODUCTION, ENV_DEMONSTRATION, ENV_UAT}
              THEN /\ c.outcome.value # "RuntimeError"
                   /\ (c.last_request.attempt >= 1) =>
                         c.last_request.url = ExpectedHost(config.environment) \o c.endpoint
              ELSE /\ pc[t] = "done"
                   /\ c.outcome.kind = "raise"
                   /\ c.outcome.value = "RuntimeError"
                   /\ c.statuses = <<>>
                   /\ c.last_request.attempt = 0
                   /\ c.n_reauth = 0
                   /\ config.auth_token = 0

C5_Witness ==
    \E t \in Threads :
        /\ pc[t] = "done"
        /\ config.environment = "staging"
        /\ call[t].retry
        /\ call[t].outcome.value = "RuntimeError"
        /\ call[t].statuses = <<>>

\* C6: with on_behalf_of configured, a call whose mapping is absent or lacks the key
\* sends on_behalf_of with the configured value on every attempt; a call whose
\* mapping has the key sends the caller's value.
C6_OnBehalfOf ==
    \A t \in Threads :
        LET c == call[t]
            sent == c.last_request.params
        IN  (c.last_request.attempt >= 1 /\ config.on_behalf_of # NoneStr) =>
              /\ sent # None
              /\ "on_behalf_of" \in DOMAIN sent
              /\ IF c.caller_data = None
                 THEN sent["on_behalf_of"] = config.on_behalf_of
                 ELSE IF "on_behalf_of" \in DOMAIN c.caller_data
                 THEN sent["on_behalf_of"] = c.caller_data["on_behalf_of"]
                 ELSE sent["on_behalf_of"] = config.on_behalf_of

C6_Witness ==
    \E t \in Threads :
        /\ call[t].last_request.attempt = 2
        /\ config.on_behalf_of = "config-contact"
        /\ call[t].caller_data = None
        /\ call[t].last_request.params = [x \in {"on_behalf_of"} |-> "config-contact"]

\* C7: every attempt of a call, the ones after a re-authentication included, carries
\* no auth header when authenticated=False and carries X-Auth-Token with the
\* Configuration's auth_token of that instant when authenticated=True.
C7_AuthHeader ==
    \A t \in Threads :
        LET c == call[t]
            r == c.last_request
        IN  (r.attempt >= 1) =>
              IF c.authenticated
              THEN r.headers = AuthHeader(r.token)
              ELSE "X-Auth-Token" \notin DOMAIN r.headers

C7_Witness ==
    \E t \in Threads :
        /\ call[t].authenticated
        /\ call[t].last_request.attempt = 3
        /\ call[t].last_request.headers = AuthHeader(call[t].began_token + 2)

\* C9: in one authenticated call with retry=True the events alternate request,
\* reauthenticate, request: the first attempt carries the token held when the call
\* began, every later attempt follows exactly one reauthenticate and carries the
\* token that reauthenticate installed, which is not the token just rejected.
C9_RequestReauthOrder ==
    \A t \in Threads :
        LET c == call[t]
            r == c.last_request
        IN  (Active(t) /\ c.retry /\ c.authenticated) =>
              /\ c.reauth_pending <= 1
              /\ c.n_reauth <= Len(c.statuses)
              /\ (pc[t] = "reauth") => c.reauth_pending = 0
              /\ (r.attempt = 1) =>
                    /\ r.reauths_before = 0
                    /\ r.headers = AuthHeader(c.began_token)
              /\ (r.attempt > 1) =>
                    /\ r.reauths_before = 1
                    /\ r.headers = AuthHeader(r.reauth_token)
                    /\ r.headers # r.prev_headers

C9_Witness ==
    \E t \in Threads :
        /\ call[t].retry
        /\ call[t].authenticated
        /\ call[t].last_request.attempt = 3
        /\ call[t].last_request.reauths_before = 1
        /\ call[t].last_request.headers = AuthHeader(call[t].last_request.reauth_token)

\* C10: with retry=True reauthenticate runs once per 401 response, authenticated or
\* not: after three 401s it has run three times, the third time after the last
\* request, and the token it leaves in the Configuration was sent on no attempt of
\* the call.
C10_ReauthPer401 ==
    \A t \in Threads :
        LET c == call[t]
        IN  (Active(t) /\ c.retry) =>
              /\ c.n_reauth = Count401(c.statuses) - (IF pc[t] = "reauth" THEN 1 ELSE 0)
              /\ (pc[t] = "done" /\ c.statuses = <<401, 401, 401>>) =>
                    /\ c.n_reauth = 3
                    /\ c.reauth_pending = 1
                    /\ c.outcome.value = "AuthenticationError"
                    /\ config.auth_token = c.reauth_token
                    /\ config.auth_token \notin c.sent_tokens

C10_Witness ==
    \E t \in Threads :
        /\ Finished(t)
        /\ call[t].retry
        /\ ~call[t].authenticated
        /\ call[t].statuses = <<401, 401, 401>>
        /\ call[t].n_reauth = 3

\* a call that began after a call that re-authenticated had returned, and has sent
\* its first authenticated attempt
SentAfterReturnedReauth(t) ==
    /\ call[t].authenticated
    /\ call[t].first_request.attempt = 1
    /\ call[t].began_after > 0

\* C8 as stated: a call that begins after a re-authenticating call has returned
\* sends, on its first authenticated attempt, the token of the latest completed
\* reauthenticate (the Configuration's token at the instant of the request).
C8_Original ==
    \A t \in Threads :
        SentAfterReturnedReauth(t) =>
            call[t].first_request.headers = AuthHeader(call[t].first_request.token)

\* C8 as amended: such a call sends the token the Configuration held when the call
\* built its headers, which is never older than the token installed by any
\* reauthenticate of a call that had returned before it began.
C8_VisibleAfterReturn ==
    \A t \in Threads :
        SentAfterReturnedReauth(t) =>
            /\ call[t].first_request.headers = AuthHeader(call[t].began_token)
            /\ call[t].began_token >= call[t].began_after
            /\ call[t].first_request.token >= call[t].began_token

C8_Witness ==
    \E t \in Threads :
        /\ SentAfterReturnedReauth(t)
        /\ call[t].first_request.headers = AuthHeader(call[t].began_after)
        /\ call[t].first_request.token > call[t].began_token

====
